---- MODULE Spec2Model ----
(***************************************************************************)
(* Model of the code-review agent (src/src/github.ts, src/src/index.ts).   *)
(*                                                                         *)
(* Text is modelled as a sequence of symbols.  A symbol is one character,  *)
(* except that the literal words the regular expressions and the string    *)
(* searches of the program look for are one symbol each ("github.com",     *)
(* "pull", "https:", the two section headings): none of these words        *)
(* overlaps itself, so matching symbol by symbol is matching character by  *)
(* character on texts in which the words occur whole.                      *)
(***************************************************************************)
EXTENDS Integers, Sequences, FiniteSets, TLC

(***************************************************************************)
(* Bounds of the model.                                                    *)
(***************************************************************************)
\* characters of owner and repository together, in a shaped identifier
MaxNameChars == 3
\* digits of the number part of a shaped identifier
MaxDigits == 2
\* symbols of an arbitrary identifier
MaxRaw == 3

(***************************************************************************)
(* Sequences.                                                              *)
(***************************************************************************)
\* all sequences over S of length lo..hi
SeqsOf(S, lo, hi) ==
    UNION {[1..k -> S] : k \in lo..hi}

\* xs[i..] of a sequence
Drop(xs, i) ==
    SubSeq(xs, i, Len(xs))

(***************************************************************************)
(* Identifier text: github.ts, parsePRIdentifier.                          *)
(***************************************************************************)
\* "a": a character that is no digit, no '/', no '#'
IdAlphabet ==
    {"a", "0", "1", "/", "#", "github.com", "pull", "https:"}

\* \d
Digit ==
    {"0", "1"}

\* [^/]
NotSlash ==
    IdAlphabet \ {"/"}

\* [^#]
NotHash ==
    IdAlphabet \ {"#"}

\* the end of the longest run of symbols of Class that starts at s[i]
\* (i - 1 when s[i] is not in Class): what a greedy Class+ consumes
RunEnd(s, i, Class) ==
    CHOOSE j \in (i - 1)..Len(s) :
        /\ \A k \in i..j : s[k] \in Class
        /\ j = Len(s) \/ s[j + 1] \notin Class

\* the literal lit occurs in s at position i
LitAt(s, i, lit) ==
    /\ i >= 1
    /\ i + Len(lit) - 1 <= Len(s)
    /\ \A k \in 1..Len(lit) : s[i + k - 1] = lit[k]

DigitVal(c) ==
    IF c = "1" THEN 1 ELSE 0

\* Number.parseInt(ds, 10) of a non-empty digit string
RECURSIVE ParseInt(_)
ParseInt(ds) ==
    IF Len(ds) = 0 THEN 0
    ELSE 10 * ParseInt(SubSeq(ds, 1, Len(ds) - 1)) + DigitVal(ds[Len(ds)])

NoMatch ==
    [matched |-> FALSE]

\* the parse callback of the three patterns: groups 1, 2, 3 of a match
MatchOf(s, b1, e1, b2, e2, b3, e3) ==
    [matched |-> TRUE,
     owner |-> SubSeq(s, b1, e1),
     repo |-> SubSeq(s, b2, e2),
     number |-> ParseInt(SubSeq(s, b3, e3))]

\* /github\.com\/([^/]+)\/([^/]+)\/pull\/(\d+)/ tried at position i only
UrlMatchAt(s, i) ==
    LET b1 == i + 2
        e1 == RunEnd(s, b1, NotSlash)
        b2 == e1 + 2
        e2 == RunEnd(s, b2, NotSlash)
        b3 == e2 + 4
        e3 == RunEnd(s, b3, Digit)
    IN  IF /\ LitAt(s, i, <<"github.com", "/">>)
           /\ e1 >= b1
           /\ LitAt(s, e1 + 1, <<"/">>)
           /\ e2 >= b2
           /\ LitAt(s, e2 + 1, <<"/", "pull", "/">>)
           /\ e3 >= b3
        THEN MatchOf(s, b1, e1, b2, e2, b3, e3)
        ELSE NoMatch

\* the URL pattern as if it were anchored at the start of the identifier
UrlMatchAnchored(s) ==
    UrlMatchAt(s, 1)

\* the pattern is not anchored: the leftmost position that matches wins
UrlMatch(s) ==
    LET starts == {i \in 1..Len(s) : UrlMatchAt(s, i).matched}
    IN  IF starts = {} THEN NoMatch
        ELSE UrlMatchAt(s, CHOOSE i \in starts : \A j \in starts : i <= j)

\* /^([^/]+)\/([^#]+)#(\d+)$/
ShortMatch(s) ==
    LET e1 == RunEnd(s, 1, NotSlash)
        b2 == e1 + 2
        e2 == RunEnd(s, b2, NotHash)
        b3 == e2 + 2
        e3 == RunEnd(s, b3, Digit)
    IN  IF /\ e1 >= 1
           /\ LitAt(s, e1 + 1, <<"/">>)
           /\ e2 >= b2
           /\ LitAt(s, e2 + 1, <<"#">>)
           /\ e3 >= b3
           /\ e3 = Len(s)
        THEN MatchOf(s, 1, e1, b2, e2, b3, e3)
        ELSE NoMatch

\* /^([^/]+)\/([^/]+)\/pull\/(\d+)$/
PathMatch(s) ==
    LET e1 == RunEnd(s, 1, NotSlash)
        b2 == e1 + 2
        e2 == RunEnd(s, b2, NotSlash)
        b3 == e2 + 4
        e3 == RunEnd(s, b3, Digit)
    IN  IF /\ e1 >= 1
           /\ LitAt(s, e1 + 1, <<"/">>)
           /\ e2 >= b2
           /\ LitAt(s, e2 + 1, <<"/", "pull", "/">>)
           /\ e3 >= b3
           /\ e3 = Len(s)
        THEN MatchOf(s, 1, e1, b2, e2, b3, e3)
        ELSE NoMatch

\* the message of the error thrown when no pattern matches; a message is a
\* sequence of lines, a line the sequence of its parts
InvalidIdentifierMessage(s) ==
    <<<<"Invalid PR identifier format: ", s>>,
      <<"Supported formats:">>,
      <<"  - https://github.com/owner/repo/pull/123">>,
      <<"  - owner/repo#123">>,
      <<"  - owner/repo/pull/123">>>>

\* a parsePRIdentifier whose array lists the shorthand pattern first
parseShortFirst(s) ==
    LET m == IF ShortMatch(s).matched THEN ShortMatch(s)
             ELSE IF UrlMatch(s).matched THEN UrlMatch(s)
             ELSE PathMatch(s)
    IN  IF m.matched
        THEN [ok |-> TRUE, owner |-> m.owner, repo |-> m.repo, number |-> m.number]
        ELSE [ok |-> FALSE, message |-> InvalidIdentifierMessage(s)]

\* parsePRIdentifier: the first pattern that matches, in the order of the array
parsePRIdentifier(s) ==
    LET m == IF UrlMatch(s).matched THEN UrlMatch(s)
             ELSE IF ShortMatch(s).matched THEN ShortMatch(s)
             ELSE PathMatch(s)
    IN  IF m.matched
        THEN [ok |-> TRUE, owner |-> m.owner, repo |-> m.repo, number |-> m.number]
        ELSE [ok |-> FALSE, message |-> InvalidIdentifierMessage(s)]

(***************************************************************************)
(* Identifiers given to parsePRIdentifier.                                 *)
(***************************************************************************)
UrlForm(o, r, n) ==
    <<"https:", "/", "/", "github.com", "/">> \o o \o <<"/">> \o r
        \o <<"/", "pull", "/">> \o n

ShortForm(o, r, n) ==
    o \o <<"/">> \o r \o <<"#">> \o n

PathForm(o, r, n) ==
    o \o <<"/">> \o r \o <<"/", "pull", "/">> \o n

\* owner and repository parts: any characters, '/' and '#' included
NameAlphabet ==
    {"a", "1", "/", "#", "github.com"}

NamePairs ==
    {p \in SeqsOf(NameAlphabet, 1, MaxNameChars - 1)
           \X SeqsOf(NameAlphabet, 1, MaxNameChars - 1) :
        Len(p[1]) + Len(p[2]) <= MaxNameChars}

NumberTexts ==
    SeqsOf(Digit, 1, MaxDigits)

ShapedInputs ==
    {[shape |-> sh, o |-> p[1], r |-> p[2], n |-> n,
      text |-> CASE sh = "url" -> UrlForm(p[1], p[2], n)
                 [] sh = "short" -> ShortForm(p[1], p[2], n)
                 [] OTHER -> PathForm(p[1], p[2], n)] :
        sh \in {"url", "short", "path"}, p \in NamePairs, n \in NumberTexts}

\* identifiers that two patterns match: a pull request URL, with or without
\* its scheme, followed by '#' and a number
OverlapInputs ==
    {[shape |-> sh, o |-> p[1], r |-> p[2], n |-> n,
      text |-> (IF sh = "url#" THEN UrlForm(p[1], p[2], n)
                ELSE Drop(UrlForm(p[1], p[2], n), 4)) \o <<"#", "1", "1">>] :
        sh \in {"url#", "host#"}, p \in NamePairs, n \in NumberTexts}

RawInputs ==
    {[shape |-> "raw", o |-> <<>>, r |-> <<>>, n |-> <<>>, text |-> t] :
        t \in SeqsOf(IdAlphabet, 0, MaxRaw)}

\* a name as the claim about equivalent inputs takes it
CleanName(x) ==
    /\ Len(x) >= 1
    /\ \A k \in 1..Len(x) : x[k] \notin {"/", "#"}

(***************************************************************************)
(* The hosting API as fetchPR sees it: github.ts, fetchPR.                 *)
(***************************************************************************)
\* files of a pull request at the host
MaxFiles == 2

\* per_page of pulls.listFiles
PerPage == 100

SamplePatch ==
    <<"@@ -1 +1 @@", "\n", "-x", "\n", "+y">>

OtherPatch ==
    <<"@@ -2 +2 @@", "\n", "+z", "\n">>

\* patch of an API file: undefined, the empty string, or text
ApiPatches ==
    {[has |-> FALSE, text |-> <<>>], [has |-> TRUE, text |-> <<>>],
     [has |-> TRUE, text |-> SamplePatch], [has |-> TRUE, text |-> OtherPatch]}

\* a file as pulls.listFiles returns it
ApiFiles ==
    {[filename |-> f, status |-> "modified", additions |-> 1, deletions |-> 1,
      changes |-> 2, hasPatch |-> pt.has, patch |-> pt.text, sha |-> "abc"] :
        f \in {"a.ts", "b.ts"}, pt \in ApiPatches}

\* the answer of pulls.get; body and user may be null
PullResponses ==
    {[title |-> "Fix parser", hasBody |-> hb, body |-> IF hb THEN "text" ELSE "",
      hasUser |-> hu, login |-> IF hu THEN "octocat" ELSE "",
      html_url |-> "html_url", state |-> "open"] :
        hb \in BOOLEAN, hu \in BOOLEAN}

\* status of a failed retrieval: none, or a number
ApiStatuses ==
    {[has |-> FALSE, code |-> 0]}
        \cup {[has |-> TRUE, code |-> c] : c \in {0, 401, 403, 404, 500}}

\* an error raised by a retrieval: status and message may be missing
ApiErrors ==
    {[hasStatus |-> st.has, status |-> st.code, hasMessage |-> hm,
      message |-> IF hm THEN "Server said no" ELSE ""] :
        st \in ApiStatuses, hm \in BOOLEAN}

\* the first page of the file list
FirstPage(files, perPage) ==
    SubSeq(files, 1, IF Len(files) < perPage THEN Len(files) ELSE perPage)

\* files.map(file => ({filename, status, additions, deletions, changes, patch}))
ToPRFile(file) ==
    [filename |-> file.filename, status |-> file.status,
     additions |-> file.additions, deletions |-> file.deletions,
     changes |-> file.changes, hasPatch |-> file.hasPatch, patch |-> file.patch]

ToPRFiles(files) ==
    [i \in 1..Len(files) |-> ToPRFile(files[i])]

\* a filter that keeps every file whose patch is defined, empty or not
HasDefinedPatch(f) ==
    f.hasPatch

\* (f) => f.patch: undefined and "" are both falsy
HasPatch(f) ==
    f.hasPatch /\ f.patch # <<>>

\* files.filter(HasPatch)
RECURSIVE FilterPatched(_)
FilterPatched(files) ==
    IF files = <<>> THEN <<>>
    ELSE IF HasPatch(Head(files))
         THEN <<Head(files)>> \o FilterPatched(Tail(files))
         ELSE FilterPatched(Tail(files))

\* `diff --git a/${f.filename} b/${f.filename}\n${f.patch}`
DiffBlock(f) ==
    <<"diff --git a/", f.filename, " b/", f.filename, "\n">> \o f.patch

\* blocks.join("\n\n")
RECURSIVE JoinBlocks(_)
JoinBlocks(blocks) ==
    IF blocks = <<>> THEN <<>>
    ELSE IF Len(blocks) = 1 THEN Head(blocks)
    ELSE Head(blocks) \o <<"\n\n">> \o JoinBlocks(Tail(blocks))

\* the diff fetchPR constructs from the patches
BuildDiff(files) ==
    LET kept == FilterPatched(files)
    IN  JoinBlocks([i \in 1..Len(kept) |-> DiffBlock(kept[i])])

\* the PRData fetchPR returns
BuildPRData(number, pr, files) ==
    [number |-> number,
     title |-> pr.title,
     body |-> IF pr.hasBody THEN pr.body ELSE "",
     author |-> IF pr.hasUser THEN pr.login ELSE "unknown",
     url |-> pr.html_url,
     files |-> ToPRFiles(files),
     diff |-> BuildDiff(files)]

\* errorMessages[status], line by line
NotFoundMessage(owner, repo, number) ==
    <<<<"PR not found: ", owner, "/", repo, "#", number>>,
      <<"Make sure:">>,
      <<"  1. The repository and PR number are correct">>,
      <<"  2. Your GitHub token has access to this repository">>,
      <<"  3. The PR exists and is not deleted">>>>

AuthFailedMessage ==
    <<<<"GitHub authentication failed. Check your GITHUB_TOKEN.">>,
      <<"Create a token at: https://github.com/settings/tokens">>>>

RateLimitMessage ==
    <<<<"GitHub API rate limit exceeded or insufficient permissions.">>,
      <<"If rate limited, wait a few minutes. If permissions issue, check token scopes.">>>>

GenericFetchMessage(err) ==
    <<<<"Failed to fetch PR: ",
        IF err.hasMessage THEN err.message ELSE "Unknown error">>>>

\* a catch block that maps 404 only and wraps every other failure
FetchErrorMessageOnly404(owner, repo, number, err) ==
    IF err.hasStatus /\ err.status = 404
    THEN NotFoundMessage(owner, repo, number)
    ELSE GenericFetchMessage(err)

\* the message of the error the catch block of fetchPR throws
FetchErrorMessage(owner, repo, number, err) ==
    IF err.hasStatus /\ err.status # 0 /\ err.status \in {404, 401, 403}
    THEN CASE err.status = 404 -> NotFoundMessage(owner, repo, number)
           [] err.status = 401 -> AuthFailedMessage
           [] OTHER -> RateLimitMessage
    ELSE GenericFetchMessage(err)

(***************************************************************************)
(* Review text and the agent's messages: index.ts, lines 350-436.          *)
(***************************************************************************)
\* the heading the stream loop and the display look for (the emoji of the
\* headings are left out of the symbols' names)
SummaryMarker ==
    "## PR Summary"

\* the heading extractReviewers looks for
ReviewersHeading ==
    "## Recommended Reviewers"

\* symbols of a review whose text starts with "##"
HashHashSymbols ==
    {"##", "###", SummaryMarker, ReviewersHeading, "## Claude PR Assessment",
     "## Areas of Concern"}

\* \w
WordChars ==
    {"a", "b", "_", "7"}

\* text.includes(sym)
Includes(text, sym) ==
    \E i \in 1..Len(text) : text[i] = sym

\* text.indexOf(sym), counted from 1; 0 when absent
IndexOf(text, sym) ==
    IF Includes(text, sym)
    THEN CHOOSE i \in 1..Len(text) :
             text[i] = sym /\ \A j \in 1..(i - 1) : text[j] # sym
    ELSE 0

\* text.split("\n")
RECURSIVE SplitLines(_)
SplitLines(text) ==
    LET i == IndexOf(text, "\n")
    IN  IF i = 0 THEN <<text>>
        ELSE <<SubSeq(text, 1, i - 1)>> \o SplitLines(Drop(text, i + 1))

\* group 1 of /## Recommended Reviewers([\s\S]*?)(?=##|$)/: the text after
\* the first heading, up to the next "##" or the end; found is FALSE when the
\* heading is absent
ReviewerSection(review) ==
    LET h == IndexOf(review, ReviewersHeading)
        rest == Drop(review, h + 1)
        stops == {i \in 1..Len(rest) : rest[i] \in HashHashSymbols}
        stop == IF stops = {} THEN Len(rest) + 1
                ELSE CHOOSE i \in stops : \A j \in stops : i <= j
    IN  IF h = 0 THEN [found |-> FALSE, text |-> <<>>]
        ELSE [found |-> TRUE, text |-> SubSeq(rest, 1, stop - 1)]

\* a match that looks at the first '@' of the line only
HandleAfterFirstAt(line) ==
    LET ats == {i \in 1..Len(line) : line[i] = "@"}
        at == CHOOSE i \in ats : \A j \in ats : i <= j
    IN  IF ats = {} THEN <<>>
        ELSE SubSeq(line, at + 1, RunEnd(line, at + 1, WordChars))

\* group 1 of line.match(/@(\w+)/): the word after the leftmost '@' that a
\* word character follows; <<>> when there is none
HandleOf(line) ==
    LET ats == {i \in 1..(Len(line) - 1) :
                   line[i] = "@" /\ line[i + 1] \in WordChars}
        at == CHOOSE i \in ats : \A j \in ats : i <= j
    IN  IF ats = {} THEN <<>>
        ELSE SubSeq(line, at + 1, RunEnd(line, at + 1, WordChars))

RECURSIVE HandlesOf(_)
HandlesOf(lines) ==
    IF lines = <<>> THEN <<>>
    ELSE (IF HandleOf(Head(lines)) = <<>> THEN <<>> ELSE <<HandleOf(Head(lines))>>)
             \o HandlesOf(Tail(lines))

\* seq without the elements that occurred earlier in it
RECURSIVE Distinct(_)
Distinct(seq) ==
    IF seq = <<>> THEN <<>>
    ELSE LET front == Distinct(SubSeq(seq, 1, Len(seq) - 1))
             last == seq[Len(seq)]
         IN  IF \E i \in 1..Len(front) : front[i] = last THEN front
             ELSE Append(front, last)

\* an extractReviewers that keeps each handle once
extractDistinct(text) ==
    LET section == ReviewerSection(text)
    IN  IF ~section.found \/ section.text = <<>> THEN <<>>
        ELSE Distinct(HandlesOf(SplitLines(section.text)))

\* extractReviewers
extractReviewers(review) ==
    LET section == ReviewerSection(review)
    IN  IF ~section.found \/ section.text = <<>> THEN <<>>
        ELSE HandlesOf(SplitLines(section.text))

\* a review as the system prompt's heading shapes it, after a preamble
ReviewWithMarker ==
    <<"Done.", "\n", SummaryMarker, "\n", "x", "\n",
      ReviewersHeading, "\n", "-", " ", "@", "a", "\n",
      "## Areas of Concern", "\n", "x">>

\* a review in the Output Format of the skill (SKILL.md, lines 41-57)
ReviewSkillFormat ==
    <<"## Claude PR Assessment", "\n", "\n",
      ReviewersHeading, "\n", "-", " ", "@", "a", " ", "x", "\n",
      "-", " ", "@", "b", "\n", "\n",
      "## Areas of Concern", "\n", "x", "\n">>

\* a review that recommends nobody
ReviewNoReviewers ==
    <<SummaryMarker, "\n", "x", "\n">>

ProgressText ==
    <<"x", " ", "x">>

NoteText ==
    <<"x", "\n">>

TextBlock(t) ==
    [type |-> "text", text |-> t]

ToolUseBlock ==
    [type |-> "tool_use", text |-> <<>>]

ToolResultBlock ==
    [type |-> "tool_result", text |-> <<>>]

\* the messages query() may yield
AgentEvents ==
    {[type |-> "assistant", hasMessage |-> TRUE, content |-> c,
      hasResult |-> FALSE, result |-> <<>>] :
        c \in {<<TextBlock(ProgressText)>>,
               <<ToolUseBlock>>,
               <<ToolUseBlock, TextBlock(NoteText)>>,
               <<TextBlock(NoteText), TextBlock(ProgressText)>>,
               <<TextBlock(<<>>)>>,
               <<TextBlock(ReviewWithMarker)>>,
               <<TextBlock(ReviewSkillFormat)>>}}
    \cup {[type |-> "user", hasMessage |-> TRUE, content |-> c,
           hasResult |-> FALSE, result |-> <<>>] :
        c \in {<<ToolResultBlock>>, <<TextBlock(ProgressText)>>}}
    \cup {[type |-> "result", hasMessage |-> FALSE, content |-> <<>>,
           hasResult |-> TRUE, result |-> t] :
        t \in {ReviewWithMarker, ReviewSkillFormat, ReviewNoReviewers, <<>>}}
    \cup {[type |-> "result", hasMessage |-> FALSE, content |-> <<>>,
           hasResult |-> FALSE, result |-> <<>>],
          [type |-> "error", hasMessage |-> FALSE, content |-> <<>>,
           hasResult |-> FALSE, result |-> <<>>],
          [type |-> "system", hasMessage |-> FALSE, content |-> <<>>,
           hasResult |-> FALSE, result |-> <<>>]}

\* content.find((c) => c.type === "text"): the first text block
FirstTextBlock(content) ==
    LET idx == {i \in 1..Len(content) : content[i].type = "text"}
    IN  IF idx = {} THEN [found |-> FALSE, text |-> <<>>]
        ELSE [found |-> TRUE,
              text |-> content[CHOOSE i \in idx : \A j \in idx : i <= j].text]

\* the text a message carries for the live output, if any (lines 370-375)
StreamedText(message) ==
    IF message.type \in {"assistant", "user"} /\ message.hasMessage
    THEN FirstTextBlock(message.content)
    ELSE [found |-> FALSE, text |-> <<>>]

\* a check that only looks at the start of the text
NotStartingWithMarker(text) ==
    text = <<>> \/ text[1] # SummaryMarker

\* !text.includes("## PR Summary")
IsLiveText(text) ==
    ~Includes(text, SummaryMarker)

\* text.endsWith("\n") ? text : text + "\n"
WithNewline(text) ==
    IF text # <<>> /\ text[Len(text)] = "\n" THEN text ELSE text \o <<"\n">>

\* a loop that reports an error message of the stream on the terminal
LiveWritesWithErrors(message) ==
    LET t == StreamedText(message)
    IN  IF message.type = "error" THEN <<<<"error", "\n">>>>
        ELSE IF t.found /\ IsLiveText(t.text) THEN <<WithNewline(t.text)>>
        ELSE <<>>

\* what the loop appends to the terminal for one message (lines 369-382)
LiveWrites(message) ==
    LET t == StreamedText(message)
    IN  IF t.found /\ IsLiveText(t.text) THEN <<WithNewline(t.text)>> ELSE <<>>

\* a capture that keeps the first result
CaptureFirstResult(message, fullReview) ==
    IF message.type = "result" /\ message.hasResult /\ fullReview = <<>>
    THEN message.result
    ELSE fullReview

\* fullReview after one message (lines 384-387)
CaptureResult(message, fullReview) ==
    IF message.type = "result" /\ message.hasResult THEN message.result
    ELSE fullReview

\* cleanReview (lines 392-394)
CleanReview(fullReview) ==
    IF IndexOf(fullReview, SummaryMarker) # 0
    THEN Drop(fullReview, IndexOf(fullReview, SummaryMarker))
    ELSE fullReview

(***************************************************************************)
(* Command line and prompts: index.ts, lines 287-314 and 441-511.          *)
(***************************************************************************)
\* arguments on the command line
MaxArgs == 2

HelpArg ==
    <<"--help">>

ShortHelpArg ==
    <<"-h">>

NonInteractiveArg ==
    <<"--non-interactive">>

\* arg.startsWith("--")
StartsWithDashes(arg) ==
    arg # <<>> /\ arg[1] \in {"--help", "--non-interactive"}

\* args.find((arg) => !arg.startsWith("--")); found is FALSE for undefined
ArgsFind(args) ==
    LET idx == {i \in 1..Len(args) : ~StartsWithDashes(args[i])}
    IN  IF idx = {} THEN [found |-> FALSE, text |-> <<>>]
        ELSE [found |-> TRUE,
              text |-> args[CHOOSE i \in idx : \A j \in idx : i <= j]]

\* args.includes(arg)
ArgsInclude(args, arg) ==
    \E i \in 1..Len(args) : args[i] = arg

\* the condition of line 292-298
ShowsHelp(id, help) ==
    \/ ~id.found
    \/ id.text = <<>>
    \/ id.text = HelpArg
    \/ id.text = ShortHelpArg
    \/ help

\* an exit code that looks at the reference only
HelpExitCodeByReference(id, help) ==
    IF id.found THEN 0 ELSE 1

\* the exit code of line 313
HelpExitCode(id, help) ==
    IF (id.found /\ id.text # <<>>) \/ help THEN 0 ELSE 1

\* a guard that forgets the --non-interactive flag
EntersLoopOnReviewers(nonInteractive, reviewers) ==
    Len(reviewers) > 0

\* !isNonInteractive && recommendedReviewers.length > 0 (line 405)
EntersLoop(nonInteractive, reviewers) ==
    ~nonInteractive /\ Len(reviewers) > 0

\* answer.toLowerCase()
ToLowerCase(text) ==
    [i \in 1..Len(text) |->
        CASE text[i] = "Y" -> "y"
          [] text[i] = "E" -> "e"
          [] text[i] = "S" -> "s"
          [] text[i] = "N" -> "n"
          [] OTHER -> text[i]]

\* a test that compares the answer as typed
IsYesAsTyped(answer) ==
    answer = <<"y">> \/ answer = <<"y", "e", "s">>

\* the test of lines 458-461 and 470-473
IsYes(answer) ==
    ToLowerCase(answer) = <<"y">> \/ ToLowerCase(answer) = <<"y", "e", "s">>

\* what the operator may type
Answers ==
    {<<"y">>, <<"Y", "E", "S">>, <<"n">>, <<>>, <<"y", "e">>}

\* `gh pr edit ${prNumber} --add-reviewer ${reviewers.join(",")}` as executed
EditCommand(prNumber, reviewers, ok) ==
    [cmd |-> "gh pr edit", number |-> prNumber, reviewers |-> reviewers,
     ok |-> ok]

\* GITHUB_TOKEN: unset, the placeholder of .env.example, or a token
Tokens ==
    {"", "your_github_token_here", "ghp_token"}

\* the value of a result variable before the call has returned
Pending ==
    [pending |-> TRUE]

Returned(v) ==
    [threw |-> FALSE, value |-> v]

Threw(m) ==
    [threw |-> TRUE, message |-> m]

VARIABLES
    given,      \* parser: the identifier under test and how it was built
    parseOut,   \* parser: Pending, or what parsePRIdentifier returned or threw
    remote,     \* host: the pull request and its files as the API serves them
    fpc,        \* fetchPR: where the call stands
    fetchId,    \* fetchPR: its argument prIdentifier
    target,     \* fetchPR: owner, repo, number once parsed
    requests,   \* host: the API requests received, in order
    pr,         \* fetchPR: the answer of pulls.get
    fetchErr,   \* fetchPR: the error its catch block caught
    fetchOut,   \* fetchPR: Pending, or what it returned or threw
    now,        \* the wall clock Date.now() reads, in milliseconds
    fs,         \* the working directory: the files that exist, with content
    commands,   \* the gh commands executed so far, in order
    ppc,        \* postReviewComment, per run: where the call stands
    postArgs,   \* postReviewComment, per run: prNumber and review
    tempFile,   \* postReviewComment, per run: the name of its temporary file
    wrote,      \* postReviewComment, per run: how writeFileSync ended
    ran,        \* postReviewComment, per run: how the gh command ended
    prIdentifier,       \* index.ts: the first argument that is no "--" flag
    isNonInteractive,   \* index.ts: --non-interactive was given
    helpRequested,      \* index.ts: --help or -h is among the arguments
    token,              \* environment: GITHUB_TOKEN
    pc,                 \* index.ts: where the run stands
    exit,               \* the process: Running, or Exited with a code
    helpShown,          \* the usage text was printed
    fatal,              \* the message main().catch printed; <<>> when none
    prData,             \* main: what fetchPR returned
    queries,            \* the agent: how many times query() was called
    arrived,            \* the agent: the messages yielded so far
    out,                \* the terminal: texts written while streaming
    fullReview,         \* main: the captured result
    displayed,          \* the terminal: reviews rendered by phase 3
    recommendedReviewers,   \* main: what extractReviewers returned
    rl,                 \* handleInteractivePrompts: "none", "open", "closed"
    prompts,            \* the terminal: questions asked, in order
    answers,            \* the operator: answers given, in order
    review,             \* extractReviewers: the review text it is given
    extractOut          \* extractReviewers: what the call returned

extractVars == <<review, extractOut>>

parseVars == <<given, parseOut>>

mainVars == <<prIdentifier, isNonInteractive, helpRequested, token, pc, exit,
              helpShown, fatal, prData, queries, arrived, out, fullReview,
              displayed, recommendedReviewers, rl, prompts, answers>>

postVars == <<now, fs, commands, ppc, postArgs, tempFile, wrote, ran>>

fetchVars == <<remote, fpc, fetchId, target, requests, pr, fetchErr, fetchOut>>

vars == <<given, parseOut, remote, fpc, fetchId, target, requests, pr, fetchErr,
          fetchOut, now, fs, commands, ppc, postArgs, tempFile, wrote, ran,
          prIdentifier, isNonInteractive, helpRequested, token, pc, exit,
          helpShown, fatal, prData, queries, arrived, out, fullReview,
          displayed, recommendedReviewers, rl, prompts, answers,
          review, extractOut>>

(***************************************************************************)
(* parsePRIdentifier on its own.                                           *)
(***************************************************************************)
ParseIdle ==
    /\ given = [shape |-> "raw", o |-> <<>>, r |-> <<>>, n |-> <<>>, text |-> <<>>]
    /\ parseOut = Pending

\* one call of parsePRIdentifier
ParseCall ==
    /\ parseOut = Pending
    /\ parseOut' = parsePRIdentifier(given.text)
    /\ UNCHANGED given
    /\ UNCHANGED <<fetchVars, postVars, mainVars, extractVars>>

(***************************************************************************)
(* fetchPR.                                                                *)
(***************************************************************************)
NoTarget ==
    [ok |-> FALSE]

NoError ==
    [none |-> TRUE]

DefaultRemote ==
    [pull |-> CHOOSE x \in PullResponses : x.hasBody /\ x.hasUser,
     files |-> <<>>]

FetchIdle ==
    /\ remote = DefaultRemote
    /\ fpc = "idle"
    /\ fetchId = <<>>
    /\ target = NoTarget
    /\ requests = <<>>
    /\ pr = Pending
    /\ fetchErr = NoError
    /\ fetchOut = Pending

\* fetchPR is called with prIdentifier id
FetchEntry(id) ==
    /\ fpc = "called"
    /\ fetchId = id
    /\ target = NoTarget
    /\ requests = <<>>
    /\ pr = Pending
    /\ fetchErr = NoError
    /\ fetchOut = Pending

\* a fetchPR whose parse sits inside the try block
FetchParseInsideTry ==
    /\ fpc = "called"
    /\ LET p == parsePRIdentifier(fetchId)
       IN  IF p.ok
           THEN /\ target' = p
                /\ fpc' = "get"
                /\ UNCHANGED fetchOut
           ELSE /\ fetchOut' = Threw(<<<<"Failed to fetch PR: ", p.message>>>>)
                /\ fpc' = "done"
                /\ UNCHANGED target
    /\ UNCHANGED <<remote, fetchId, requests, pr, fetchErr>>
    /\ UNCHANGED <<parseVars, postVars, mainVars, extractVars>>

\* lines 88-90: the identifier is parsed outside the try block, so the
\* parser's error leaves fetchPR as it is
FetchParse ==
    /\ fpc = "called"
    /\ LET p == parsePRIdentifier(fetchId)
       IN  IF p.ok
           THEN /\ target' = p
                /\ fpc' = "get"
                /\ UNCHANGED fetchOut
           ELSE /\ fetchOut' = Threw(p.message)
                /\ fpc' = "done"
                /\ UNCHANGED target
    /\ UNCHANGED <<remote, fetchId, requests, pr, fetchErr>>
    /\ UNCHANGED <<parseVars, postVars, mainVars, extractVars>>

GetRequest ==
    [api |-> "pulls.get", owner |-> target.owner, repo |-> target.repo,
     pull_number |-> target.number]

ListRequest ==
    [api |-> "pulls.listFiles", owner |-> target.owner, repo |-> target.repo,
     pull_number |-> target.number, per_page |-> PerPage]

\* lines 94-102: pulls.get answers
FetchGetOk ==
    /\ fpc = "get"
    /\ requests' = Append(requests, GetRequest)
    /\ pr' = remote.pull
    /\ fpc' = "list"
    /\ UNCHANGED <<remote, fetchId, target, fetchErr, fetchOut>>
    /\ UNCHANGED <<parseVars, postVars, mainVars, extractVars>>

\* a pulls.get that is tried a second time before its failure is reported
FetchGetFailRetried ==
    /\ fpc = "get"
    /\ \E err \in ApiErrors :
        /\ requests' = requests \o <<GetRequest, GetRequest>>
        /\ fetchErr' = err
        /\ fetchOut' = Threw(FetchErrorMessage(target.owner, target.repo,
                                               target.number, err))
    /\ fpc' = "done"
    /\ UNCHANGED <<remote, fetchId, target, pr>>
    /\ UNCHANGED <<parseVars, postVars, mainVars, extractVars>>

\* lines 94-98, 141-164: pulls.get fails
FetchGetFail ==
    /\ fpc = "get"
    /\ \E err \in ApiErrors :
        /\ requests' = Append(requests, GetRequest)
        /\ fetchErr' = err
        /\ fetchOut' = Threw(FetchErrorMessage(target.owner, target.repo,
                                               target.number, err))
    /\ fpc' = "done"
    /\ UNCHANGED <<remote, fetchId, target, pr>>
    /\ UNCHANGED <<parseVars, postVars, mainVars, extractVars>>

\* lines 105-140: pulls.listFiles answers, the diff is built, PRData returned
FetchListOk ==
    /\ fpc = "list"
    /\ requests' = Append(requests, ListRequest)
    /\ fetchOut' = Returned(BuildPRData(target.number, pr,
                                        FirstPage(remote.files, PerPage)))
    /\ fpc' = "done"
    /\ UNCHANGED <<remote, fetchId, target, pr, fetchErr>>
    /\ UNCHANGED <<parseVars, postVars, mainVars, extractVars>>

\* lines 105-110, 141-164: pulls.listFiles fails
FetchListFail ==
    /\ fpc = "list"
    /\ \E err \in ApiErrors :
        /\ requests' = Append(requests, ListRequest)
        /\ fetchErr' = err
        /\ fetchOut' = Threw(FetchErrorMessage(target.owner, target.repo,
                                               target.number, err))
    /\ fpc' = "done"
    /\ UNCHANGED <<remote, fetchId, target, pr>>
    /\ UNCHANGED <<parseVars, postVars, mainVars, extractVars>>

(***************************************************************************)
(* postReviewComment: index.ts, lines 516-550.  Runs are separate          *)
(* processes; they share the working directory and the wall clock.         *)
(***************************************************************************)
Runs ==
    {1, 2}

\* the last millisecond of the clock
MaxClock == 1

\* before line 520 has run
NoFile ==
    [number |-> 0, stamp |-> 0]

\* `.review-${prNumber}-${Date.now()}.md`
TempFileName(prNumber, stamp) ==
    [number |-> prNumber, stamp |-> stamp]

\* writeFileSync(name, text): the file is created or replaced
WriteFile(files, name, text) ==
    [x \in DOMAIN files \cup {name} |-> IF x = name THEN text ELSE files[x]]

\* unlinkSync(name); a missing file raises ENOENT, which the caller ignores
UnlinkFile(files, name) ==
    [x \in DOMAIN files \ {name} |-> files[x]]

EmptyDir ==
    [x \in {} |-> <<>>]

\* a gh pr comment that names the repository the pull request was fetched
\* from
CommentCommandWithRepo(prNumber, name, files, ok) ==
    [cmd |-> "gh pr comment", number |-> prNumber, bodyFile |-> name,
     found |-> name \in DOMAIN files,
     body |-> IF name \in DOMAIN files THEN files[name] ELSE <<>>,
     ok |-> ok, repo |-> <<target.owner, "/", target.repo>>]

\* `gh pr comment ${prNumber} --body-file ${tempFile}` as executed: body is
\* what gh found in the file
CommentCommand(prNumber, name, files, ok) ==
    [cmd |-> "gh pr comment", number |-> prNumber, bodyFile |-> name,
     found |-> name \in DOMAIN files,
     body |-> IF name \in DOMAIN files THEN files[name] ELSE <<>>,
     ok |-> ok]

PostIdle ==
    /\ now = 0
    /\ fs = EmptyDir
    /\ commands = <<>>
    /\ ppc = [r \in Runs |-> "idle"]
    /\ postArgs = [r \in Runs |-> [prNumber |-> 0, review |-> <<>>]]
    /\ tempFile = [r \in Runs |-> NoFile]
    /\ wrote = [r \in Runs |-> "no"]
    /\ ran = [r \in Runs |-> "no"]

\* the clock advances
Tick ==
    /\ now < MaxClock
    /\ now' = now + 1
    /\ UNCHANGED <<fs, commands, ppc, postArgs, tempFile, wrote, ran>>
    /\ UNCHANGED <<parseVars, fetchVars, mainVars, extractVars>>

\* lines 520-524: the name is chosen and the review written
PostWriteOk(r) ==
    /\ ppc[r] = "write"
    /\ LET name == TempFileName(postArgs[r].prNumber, now)
       IN  /\ tempFile' = [tempFile EXCEPT ![r] = name]
           /\ fs' = WriteFile(fs, name, postArgs[r].review)
    /\ wrote' = [wrote EXCEPT ![r] = "ok"]
    /\ ppc' = [ppc EXCEPT ![r] = "exec"]
    /\ UNCHANGED <<now, commands, postArgs, ran>>
    /\ UNCHANGED <<parseVars, fetchVars, mainVars, extractVars>>

\* lines 520-524, 538-541: writeFileSync throws, having created nothing or
\* having left a truncated file; the catch block reports it
PostWriteFail(r) ==
    /\ ppc[r] = "write"
    /\ LET name == TempFileName(postArgs[r].prNumber, now)
       IN  /\ tempFile' = [tempFile EXCEPT ![r] = name]
           /\ \E created \in BOOLEAN :
               /\ fs' = IF created THEN WriteFile(fs, name, <<>>) ELSE fs
               /\ wrote' = [wrote EXCEPT ![r] = IF created THEN "partial"
                                                ELSE "failed"]
    /\ ppc' = [ppc EXCEPT ![r] = "cleanup"]
    /\ UNCHANGED <<now, commands, postArgs, ran>>
    /\ UNCHANGED <<parseVars, fetchVars, mainVars, extractVars>>

\* lines 526-537: gh reads the file and posts the comment
PostExecOk(r) ==
    /\ ppc[r] = "exec"
    /\ tempFile[r] \in DOMAIN fs
    /\ commands' = Append(commands,
                          CommentCommand(postArgs[r].prNumber, tempFile[r], fs, TRUE))
    /\ ran' = [ran EXCEPT ![r] = "ok"]
    /\ ppc' = [ppc EXCEPT ![r] = "cleanup"]
    /\ UNCHANGED <<now, fs, postArgs, tempFile, wrote>>
    /\ UNCHANGED <<parseVars, fetchVars, mainVars, extractVars>>

\* lines 526-529, 538-541: the command fails; the catch block reports it
PostExecFail(r) ==
    /\ ppc[r] = "exec"
    /\ commands' = Append(commands,
                          CommentCommand(postArgs[r].prNumber, tempFile[r], fs, FALSE))
    /\ ran' = [ran EXCEPT ![r] = "failed"]
    /\ ppc' = [ppc EXCEPT ![r] = "cleanup"]
    /\ UNCHANGED <<now, fs, postArgs, tempFile, wrote>>
    /\ UNCHANGED <<parseVars, fetchVars, mainVars, extractVars>>

\* a cleanup that sits at the end of the try block: skipped when the write
\* or the command threw
PostCleanupInTry(r) ==
    /\ ppc[r] = "cleanup"
    /\ fs' = IF wrote[r] = "ok" /\ ran[r] = "ok" THEN UnlinkFile(fs, tempFile[r])
             ELSE fs
    /\ ppc' = [ppc EXCEPT ![r] = "returned"]
    /\ UNCHANGED <<now, commands, postArgs, tempFile, wrote, ran>>
    /\ UNCHANGED <<parseVars, fetchVars, mainVars, extractVars>>

\* lines 542-549: the finally block removes the file, and the call returns
PostCleanup(r) ==
    /\ ppc[r] = "cleanup"
    /\ fs' = UnlinkFile(fs, tempFile[r])
    /\ ppc' = [ppc EXCEPT ![r] = "returned"]
    /\ UNCHANGED <<now, commands, postArgs, tempFile, wrote, ran>>
    /\ UNCHANGED <<parseVars, fetchVars, mainVars, extractVars>>

(***************************************************************************)
(* The run: index.ts, lines 287-414 and 441-511, 552-555.                  *)
(***************************************************************************)
Running ==
    [done |-> FALSE]

Exited(code) ==
    [done |-> TRUE, code |-> code]

\* the run of this process among Runs
Self ==
    1

MainIdle ==
    /\ prIdentifier = [found |-> FALSE, text |-> <<>>]
    /\ isNonInteractive = FALSE
    /\ helpRequested = FALSE
    /\ token = ""
    /\ pc = "none"
    /\ exit = Running
    /\ helpShown = FALSE
    /\ fatal = <<>>
    /\ prData = Pending
    /\ queries = 0
    /\ arrived = <<>>
    /\ out = <<>>
    /\ fullReview = <<>>
    /\ displayed = <<>>
    /\ recommendedReviewers = <<>>
    /\ rl = "none"
    /\ prompts = <<>>
    /\ answers = <<>>

\* lines 288-290: the state once the arguments args have been read
MainStart(args) ==
    /\ prIdentifier = ArgsFind(args)
    /\ isNonInteractive = ArgsInclude(args, NonInteractiveArg)
    /\ helpRequested = (ArgsInclude(args, HelpArg) \/ ArgsInclude(args, ShortHelpArg))
    /\ pc = "startup"
    /\ exit = Running
    /\ helpShown = FALSE
    /\ fatal = <<>>
    /\ prData = Pending
    /\ queries = 0
    /\ arrived = <<>>
    /\ out = <<>>
    /\ fullReview = <<>>
    /\ displayed = <<>>
    /\ recommendedReviewers = <<>>
    /\ rl = "none"
    /\ prompts = <<>>
    /\ answers = <<>>

\* main().catch (lines 552-555): the message is printed, the process exits 1
Fatal(message) ==
    /\ fatal' = message
    /\ exit' = Exited(1)
    /\ pc' = "exited"

\* lines 292-314: the usage text and process.exit
StartupHelp ==
    /\ pc = "startup"
    /\ ShowsHelp(prIdentifier, helpRequested)
    /\ helpShown' = TRUE
    /\ exit' = Exited(HelpExitCode(prIdentifier, helpRequested))
    /\ pc' = "exited"
    /\ UNCHANGED <<prIdentifier, isNonInteractive, helpRequested, token, fatal,
                   prData, queries, arrived, out, fullReview, displayed,
                   recommendedReviewers, rl, prompts, answers>>
    /\ UNCHANGED <<parseVars, fetchVars, postVars, extractVars>>

\* lines 332-335 and github.ts 19-26: no usable token
MainNoToken ==
    /\ pc = "startup"
    /\ ~ShowsHelp(prIdentifier, helpRequested)
    /\ token \in {"", "your_github_token_here"}
    /\ Fatal(IF token = ""
             THEN <<<<"GITHUB_TOKEN environment variable is required">>>>
             ELSE <<<<"GitHub token is required. Set GITHUB_TOKEN environment variable.">>,
                    <<"Create a token at: https://github.com/settings/tokens">>,
                    <<"Needs \"repo\" scope for private repos, \"public_repo\" for public repos.">>>>)
    /\ UNCHANGED <<prIdentifier, isNonInteractive, helpRequested, token,
                   helpShown, prData, queries, arrived, out, fullReview,
                   displayed, recommendedReviewers, rl, prompts, answers>>
    /\ UNCHANGED <<parseVars, fetchVars, postVars, extractVars>>

\* lines 337-338: fetchPR is called
MainCallFetch ==
    /\ pc = "startup"
    /\ ~ShowsHelp(prIdentifier, helpRequested)
    /\ token \notin {"", "your_github_token_here"}
    /\ fpc = "idle"
    /\ fpc' = "called"
    /\ fetchId' = prIdentifier.text
    /\ pc' = "fetching"
    /\ UNCHANGED <<remote, target, requests, pr, fetchErr, fetchOut>>
    /\ UNCHANGED <<prIdentifier, isNonInteractive, helpRequested, token, exit,
                   helpShown, fatal, prData, queries, arrived, out, fullReview,
                   displayed, recommendedReviewers, rl, prompts, answers>>
    /\ UNCHANGED <<parseVars, postVars, extractVars>>

\* line 338, 552-555: fetchPR threw
MainFetchFailed ==
    /\ pc = "fetching"
    /\ fpc = "done"
    /\ fetchOut.threw
    /\ Fatal(fetchOut.message)
    /\ UNCHANGED <<prIdentifier, isNonInteractive, helpRequested, token,
                   helpShown, prData, queries, arrived, out, fullReview,
                   displayed, recommendedReviewers, rl, prompts, answers>>
    /\ UNCHANGED <<parseVars, fetchVars, postVars, extractVars>>

\* lines 338-367: fetchPR returned; the prompt is formatted and query() called
MainQuery ==
    /\ pc = "fetching"
    /\ fpc = "done"
    /\ ~fetchOut.threw
    /\ prData' = fetchOut.value
    /\ queries' = queries + 1
    /\ pc' = "streaming"
    /\ UNCHANGED <<prIdentifier, isNonInteractive, helpRequested, token, exit,
                   helpShown, fatal, arrived, out, fullReview, displayed,
                   recommendedReviewers, rl, prompts, answers>>
    /\ UNCHANGED <<parseVars, fetchVars, postVars, extractVars>>

\* messages of one run
MaxEvents == 2

\* lines 368-388: one message of the stream
StreamMessage ==
    /\ pc = "streaming"
    /\ Len(arrived) < MaxEvents
    /\ \E message \in AgentEvents :
        /\ arrived' = Append(arrived, message)
        /\ out' = out \o LiveWrites(message)
        /\ fullReview' = CaptureResult(message, fullReview)
    /\ UNCHANGED <<prIdentifier, isNonInteractive, helpRequested, token, pc,
                   exit, helpShown, fatal, prData, queries, displayed,
                   recommendedReviewers, rl, prompts, answers>>
    /\ UNCHANGED <<parseVars, fetchVars, postVars, extractVars>>

\* a loop that catches the error of the stream, reports it and goes on to
\* phase 3
StreamThrowsCaught ==
    /\ pc = "streaming"
    /\ fatal = <<>>
    /\ fatal' = <<<<"agent stream failed">>>>
    /\ UNCHANGED <<prIdentifier, isNonInteractive, helpRequested, token, pc,
                   exit, helpShown, prData, queries, arrived, out, fullReview,
                   displayed, recommendedReviewers, rl, prompts, answers>>
    /\ UNCHANGED <<parseVars, fetchVars, postVars, extractVars>>

\* lines 351, 552-555: the stream raises
StreamThrows ==
    /\ pc = "streaming"
    /\ Fatal(<<<<"agent stream failed">>>>)
    /\ UNCHANGED <<prIdentifier, isNonInteractive, helpRequested, token,
                   helpShown, prData, queries, arrived, out, fullReview,
                   displayed, recommendedReviewers, rl, prompts, answers>>
    /\ UNCHANGED <<parseVars, fetchVars, postVars, extractVars>>

AssignPrompt ==
    "Would you like to auto-assign these reviewers? (y/N): "

CommentPrompt ==
    "Would you like to post this review as a PR comment? (y/N): "

\* a phase 3 without its guard: whatever was captured is displayed
StreamEndsUnguarded ==
    /\ pc = "streaming"
    /\ displayed' = Append(displayed, CleanReview(fullReview))
    /\ recommendedReviewers' = extractReviewers(fullReview)
    /\ IF EntersLoop(isNonInteractive, extractReviewers(fullReview))
       THEN /\ rl' = "open"
            /\ prompts' = Append(prompts, AssignPrompt)
            /\ pc' = "assign_question"
            /\ UNCHANGED exit
       ELSE /\ pc' = "exited"
            /\ exit' = Exited(0)
            /\ UNCHANGED <<rl, prompts>>
    /\ UNCHANGED <<prIdentifier, isNonInteractive, helpRequested, token,
                   helpShown, fatal, prData, queries, arrived, out, fullReview,
                   answers>>
    /\ UNCHANGED <<parseVars, fetchVars, postVars, extractVars>>

\* lines 390-413, 446-456: the stream has ended; phase 3 displays the review,
\* phase 4 opens the prompts or main returns
StreamEnds ==
    /\ pc = "streaming"
    /\ IF fullReview # <<>>
       THEN /\ displayed' = Append(displayed, CleanReview(fullReview))
            /\ recommendedReviewers' = extractReviewers(fullReview)
            /\ IF EntersLoop(isNonInteractive, extractReviewers(fullReview))
               THEN /\ rl' = "open"
                    /\ prompts' = Append(prompts, AssignPrompt)
                    /\ pc' = "assign_question"
                    /\ UNCHANGED exit
               ELSE /\ pc' = "exited"
                    /\ exit' = Exited(0)
                    /\ UNCHANGED <<rl, prompts>>
       ELSE /\ pc' = "exited"
            /\ exit' = Exited(0)
            /\ UNCHANGED <<displayed, recommendedReviewers, rl, prompts>>
    /\ UNCHANGED <<prIdentifier, isNonInteractive, helpRequested, token,
                   helpShown, fatal, prData, queries, arrived, out, fullReview,
                   answers>>
    /\ UNCHANGED <<parseVars, fetchVars, postVars, extractVars>>

\* a first answer whose assignReviewers call is not awaited: the second
\* question is asked while gh pr edit runs
AnswerAssignYesNoAwait ==
    /\ pc = "assign_question"
    /\ \E a \in Answers :
        /\ IsYes(a)
        /\ answers' = Append(answers, a)
    /\ prompts' = Append(prompts, CommentPrompt)
    /\ pc' = "assigning"
    /\ UNCHANGED <<prIdentifier, isNonInteractive, helpRequested, token, exit,
                   helpShown, fatal, prData, queries, arrived, out, fullReview,
                   displayed, recommendedReviewers, rl>>
    /\ UNCHANGED <<parseVars, fetchVars, postVars, extractVars>>

\* lines 454-463, 491-495: the first answer; "y" or "yes" runs gh pr edit
AnswerAssignYes ==
    /\ pc = "assign_question"
    /\ \E a \in Answers :
        /\ IsYes(a)
        /\ answers' = Append(answers, a)
    /\ pc' = "assigning"
    /\ UNCHANGED <<prIdentifier, isNonInteractive, helpRequested, token, exit,
                   helpShown, fatal, prData, queries, arrived, out, fullReview,
                   displayed, recommendedReviewers, rl, prompts>>
    /\ UNCHANGED <<parseVars, fetchVars, postVars, extractVars>>

\* lines 454-468: any other first answer; the second question is asked
AnswerAssignNo ==
    /\ pc = "assign_question"
    /\ \E a \in Answers :
        /\ ~IsYes(a)
        /\ answers' = Append(answers, a)
    /\ prompts' = Append(prompts, CommentPrompt)
    /\ pc' = "comment_question"
    /\ UNCHANGED <<prIdentifier, isNonInteractive, helpRequested, token, exit,
                   helpShown, fatal, prData, queries, arrived, out, fullReview,
                   displayed, recommendedReviewers, rl>>
    /\ UNCHANGED <<parseVars, fetchVars, postVars, extractVars>>

\* an assignReviewers without its catch block: a failed gh pr edit leaves
\* handleInteractivePrompts through finally and ends the run
AssignDoneUncaught ==
    /\ pc = "assigning"
    /\ \E ok \in BOOLEAN :
        /\ commands' = Append(commands,
                              EditCommand(prData.number, recommendedReviewers, ok))
        /\ IF ok
           THEN /\ prompts' = Append(prompts, CommentPrompt)
                /\ pc' = "comment_question"
                /\ UNCHANGED <<rl, exit, fatal>>
           ELSE /\ rl' = "closed"
                /\ Fatal(<<<<"gh pr edit failed">>>>)
                /\ UNCHANGED prompts
    /\ UNCHANGED <<now, fs, ppc, postArgs, tempFile, wrote, ran>>
    /\ UNCHANGED <<prIdentifier, isNonInteractive, helpRequested, token,
                   helpShown, prData, queries, arrived, out, fullReview,
                   displayed, recommendedReviewers, answers>>
    /\ UNCHANGED <<parseVars, fetchVars, extractVars>>

\* lines 495-510, 465-468: gh pr edit ends, well or not (a failure is caught
\* and reported); the second question is asked
AssignDone ==
    /\ pc = "assigning"
    /\ \E ok \in BOOLEAN :
        commands' = Append(commands,
                           EditCommand(prData.number, recommendedReviewers, ok))
    /\ prompts' = Append(prompts, CommentPrompt)
    /\ pc' = "comment_question"
    /\ UNCHANGED <<now, fs, ppc, postArgs, tempFile, wrote, ran>>
    /\ UNCHANGED <<prIdentifier, isNonInteractive, helpRequested, token, exit,
                   helpShown, fatal, prData, queries, arrived, out, fullReview,
                   displayed, recommendedReviewers, rl, answers>>
    /\ UNCHANGED <<parseVars, fetchVars, extractVars>>

\* lines 466-475: the second answer is "y" or "yes": postReviewComment is called
AnswerCommentYes ==
    /\ pc = "comment_question"
    /\ \E a \in Answers :
        /\ IsYes(a)
        /\ answers' = Append(answers, a)
    /\ ppc[Self] = "idle"
    /\ ppc' = [ppc EXCEPT ![Self] = "write"]
    /\ postArgs' = [postArgs EXCEPT ![Self] =
                        [prNumber |-> prData.number,
                         review |-> CleanReview(fullReview)]]
    /\ pc' = "posting"
    /\ UNCHANGED <<now, fs, commands, tempFile, wrote, ran>>
    /\ UNCHANGED <<prIdentifier, isNonInteractive, helpRequested, token, exit,
                   helpShown, fatal, prData, queries, arrived, out, fullReview,
                   displayed, recommendedReviewers, rl, prompts>>
    /\ UNCHANGED <<parseVars, fetchVars, extractVars>>

\* lines 466-480: any other second answer; the interface is closed, main returns
AnswerCommentNo ==
    /\ pc = "comment_question"
    /\ \E a \in Answers :
        /\ ~IsYes(a)
        /\ answers' = Append(answers, a)
    /\ rl' = "closed"
    /\ pc' = "exited"
    /\ exit' = Exited(0)
    /\ UNCHANGED <<prIdentifier, isNonInteractive, helpRequested, token,
                   helpShown, fatal, prData, queries, arrived, out, fullReview,
                   displayed, recommendedReviewers, prompts>>
    /\ UNCHANGED <<parseVars, fetchVars, postVars, extractVars>>

\* lines 474-480: postReviewComment has returned
PostReturned ==
    /\ pc = "posting"
    /\ ppc[Self] = "returned"
    /\ rl' = "closed"
    /\ pc' = "exited"
    /\ exit' = Exited(0)
    /\ UNCHANGED <<prIdentifier, isNonInteractive, helpRequested, token,
                   helpShown, fatal, prData, queries, arrived, out, fullReview,
                   displayed, recommendedReviewers, prompts, answers>>
    /\ UNCHANGED <<parseVars, fetchVars, postVars, extractVars>>

\* a handleInteractivePrompts without its finally block: a failing question
\* leaves the interface open
QuestionFailsNoFinally ==
    /\ pc \in {"assign_question", "comment_question"}
    /\ Fatal(<<<<"readline failed">>>>)
    /\ UNCHANGED <<prIdentifier, isNonInteractive, helpRequested, token,
                   helpShown, prData, queries, arrived, out, fullReview,
                   displayed, recommendedReviewers, rl, prompts, answers>>
    /\ UNCHANGED <<parseVars, fetchVars, postVars, extractVars>>

\* lines 454, 466, 478-480, 552-555: reading an answer fails; the finally
\* block closes the interface and the error ends the run
QuestionFails ==
    /\ pc \in {"assign_question", "comment_question"}
    /\ rl' = "closed"
    /\ Fatal(<<<<"readline failed">>>>)
    /\ UNCHANGED <<prIdentifier, isNonInteractive, helpRequested, token,
                   helpShown, prData, queries, arrived, out, fullReview,
                   displayed, recommendedReviewers, prompts, answers>>
    /\ UNCHANGED <<parseVars, fetchVars, postVars, extractVars>>

(***************************************************************************)
(* extractReviewers called on its own: index.ts, lines 418-436.            *)
(***************************************************************************)
NoReview ==
    [hasHeading |-> FALSE, prefix |-> <<>>, lines |-> <<>>, ending |-> "end",
     text |-> <<>>]

ExtractIdle ==
    /\ review = NoReview
    /\ extractOut = Pending

\* extractReviewers(review.text) returns
ExtractCall ==
    /\ extractOut = Pending
    /\ review # NoReview
    /\ extractOut' = Returned(extractReviewers(review.text))
    /\ UNCHANGED review
    /\ UNCHANGED <<parseVars, fetchVars, postVars, mainVars>>

(***************************************************************************)
(* Specifications.                                                         *)
(***************************************************************************)
ParseInit ==
    /\ given \in ShapedInputs \cup OverlapInputs \cup RawInputs
    /\ parseOut = Pending
    /\ FetchIdle
    /\ PostIdle
    /\ MainIdle
    /\ ExtractIdle

ParseNext ==
    ParseCall

SpecParse ==
    ParseInit /\ [][ParseNext]_vars

\* identifiers fetchPR is called with: every short text, and the three forms
FetchIdentifiers ==
    SeqsOf(IdAlphabet, 0, MaxRaw)
        \cup {UrlForm(<<"a">>, <<"a">>, <<"1">>),
              ShortForm(<<"a">>, <<"a">>, <<"1", "0">>),
              PathForm(<<"a">>, <<"a">>, <<"0", "1">>)}

RemoteStates ==
    [pull : PullResponses, files : SeqsOf(ApiFiles, 0, MaxFiles)]

\* an identifier that parses meets every state of the host; one that does
\* not never reaches the host
FetchInit ==
    /\ ParseIdle
    /\ PostIdle
    /\ MainIdle
    /\ ExtractIdle
    /\ \E id \in FetchIdentifiers :
        /\ FetchEntry(id)
        /\ IF parsePRIdentifier(id).ok
           THEN remote \in RemoteStates
           ELSE remote = DefaultRemote

FetchNext ==
    \/ FetchParse
    \/ FetchGetOk
    \/ FetchGetFail
    \/ FetchListOk
    \/ FetchListFail

SpecFetch ==
    FetchInit /\ [][FetchNext]_vars

\* reviews and pull request numbers of two concurrent postReviewComment calls
PostReviews ==
    {<<"## Review", "\n", "one">>, <<"## Review", "\n", "two">>}

PostNumbers ==
    {7, 8}

\* two runs in one working directory, each about to post its review
PostInit ==
    /\ ParseIdle
    /\ FetchIdle
    /\ MainIdle
    /\ ExtractIdle
    /\ now = 0
    /\ fs = EmptyDir
    /\ commands = <<>>
    /\ ppc = [r \in Runs |-> "write"]
    /\ postArgs \in [Runs -> [prNumber : PostNumbers, review : PostReviews]]
    /\ tempFile = [r \in Runs |-> NoFile]
    /\ wrote = [r \in Runs |-> "no"]
    /\ ran = [r \in Runs |-> "no"]

PostNext ==
    \/ Tick
    \/ \E r \in Runs : PostWriteOk(r)
    \/ \E r \in Runs : PostWriteFail(r)
    \/ \E r \in Runs : PostExecOk(r)
    \/ \E r \in Runs : PostExecFail(r)
    \/ \E r \in Runs : PostCleanup(r)

SpecPost ==
    PostInit /\ [][PostNext]_vars

\* lines of a reviewer section
MaxSectionLines == 2

\* a line, the handle of its first mention (<<>> when it mentions nobody) and
\* whether it mentions a second handle
SectionLines ==
    {[text |-> <<"-", " ", "@", "a">>, handle |-> <<"a">>, more |-> FALSE],
     [text |-> <<"-", " ", "*", "*", "@", "a", "b", "*", "*", " ", "x">>,
      handle |-> <<"a", "b">>, more |-> FALSE],
     [text |-> <<"x">>, handle |-> <<>>, more |-> FALSE],
     [text |-> <<"@", " ", "x">>, handle |-> <<>>, more |-> FALSE],
     [text |-> <<"x", "@", "b", "-", "a">>, handle |-> <<"b">>, more |-> FALSE],
     [text |-> <<"@", "a", " ", "@", "b">>, handle |-> <<"a">>, more |-> TRUE],
     [text |-> <<"x", " ", "@", " ", "@", "b", "_", "7">>,
      handle |-> <<"b", "_", "7">>, more |-> FALSE],
     [text |-> <<>>, handle |-> <<>>, more |-> FALSE]}

\* what comes before the heading
Prefixes ==
    {<<>>, <<"## Claude PR Assessment", "\n", "@", "b", "\n">>}

\* what follows the lines of the section: the end of the text, the next
\* heading, a deeper heading and more of the section, a line with "##" inside
\* and more of the section, or the next heading and a second reviewer section
Endings ==
    {"end", "heading", "deeper", "inline", "second"}

EndingText(ending) ==
    CASE ending = "end" -> <<>>
      [] ending = "heading" ->
            <<"\n", "## Areas of Concern", "\n", "-", " ", "@", "b">>
      [] ending = "deeper" ->
            <<"\n", "###", " ", "x", "\n", "-", " ", "@", "b", "\n",
              "## Areas of Concern", "\n", "@", "7">>
      [] ending = "inline" ->
            <<"\n", "x", " ", "##", " ", "x", "\n", "-", " ", "@", "b", "\n",
              "## Areas of Concern", "\n", "@", "7">>
      [] ending = "second" ->
            <<"\n", "## Areas of Concern", "\n", ReviewersHeading, "\n",
              "@", "b">>

\* each line after a line break
RECURSIVE LinesText(_)
LinesText(lines) ==
    IF lines = <<>> THEN <<>>
    ELSE <<"\n">> \o Head(lines).text \o LinesText(Tail(lines))

ReviewTexts ==
    {[hasHeading |-> TRUE, prefix |-> p, lines |-> ls, ending |-> e,
      text |-> p \o <<ReviewersHeading>> \o LinesText(ls) \o EndingText(e)] :
        p \in Prefixes, ls \in SeqsOf(SectionLines, 0, MaxSectionLines),
        e \in Endings}
    \cup {[hasHeading |-> FALSE, prefix |-> p, lines |-> ls, ending |-> "end",
           text |-> p \o LinesText(ls)] :
        p \in Prefixes, ls \in SeqsOf(SectionLines, 1, MaxSectionLines)}

ExtractInit ==
    /\ ParseIdle
    /\ FetchIdle
    /\ PostIdle
    /\ MainIdle
    /\ review \in ReviewTexts
    /\ extractOut = Pending

ExtractNext ==
    ExtractCall

SpecExtract ==
    ExtractInit /\ [][ExtractNext]_vars

\* what may stand on the command line
ArgChoices ==
    {HelpArg, ShortHelpArg, NonInteractiveArg, <<>>, <<"a">>,
     ShortForm(<<"a">>, <<"a">>, <<"1">>),
     PathForm(<<"1">>, <<"a">>, <<"1">>)}

\* the pull request of the run: one file with a patch, one without
MainRemote ==
    [pull |-> DefaultRemote.pull,
     files |-> <<CHOOSE f \in ApiFiles : f.filename = "a.ts" /\ f.patch = SamplePatch,
                 CHOOSE f \in ApiFiles : f.filename = "b.ts" /\ ~f.hasPatch>>]

Init ==
    /\ ParseIdle
    /\ PostIdle
    /\ remote = MainRemote
    /\ fpc = "idle"
    /\ fetchId = <<>>
    /\ target = NoTarget
    /\ requests = <<>>
    /\ pr = Pending
    /\ fetchErr = NoError
    /\ fetchOut = Pending
    /\ ExtractIdle
    /\ token \in Tokens
    /\ \E args \in SeqsOf(ArgChoices, 0, MaxArgs) : MainStart(args)

Next ==
    \/ StartupHelp
    \/ MainNoToken
    \/ MainCallFetch
    \/ FetchParse
    \/ FetchGetOk
    \/ FetchGetFail
    \/ FetchListOk
    \/ FetchListFail
    \/ MainFetchFailed
    \/ MainQuery
    \/ StreamMessage
    \/ StreamThrows
    \/ StreamEnds
    \/ AnswerAssignYes
    \/ AnswerAssignNo
    \/ AssignDone
    \/ AnswerCommentYes
    \/ AnswerCommentNo
    \/ QuestionFails
    \/ PostWriteOk(Self)
    \/ PostWriteFail(Self)
    \/ PostExecOk(Self)
    \/ PostExecFail(Self)
    \/ PostCleanup(Self)
    \/ PostReturned

Spec ==
    Init /\ [][Next]_vars

\* a step of handleInteractivePrompts and of the calls it makes
LoopStep ==
    \/ AnswerAssignYes
    \/ AnswerAssignNo
    \/ AssignDone
    \/ AnswerCommentYes
    \/ AnswerCommentNo
    \/ QuestionFails
    \/ PostWriteOk(Self)
    \/ PostWriteFail(Self)
    \/ PostExecOk(Self)
    \/ PostExecFail(Self)
    \/ PostCleanup(Self)
    \/ PostReturned

\* the run, with every rl.question settling (an answer or an error) and every
\* awaited command returning: the awaits of lines 454-475, 495 and 529
LiveSpec ==
    Init /\ [][Next]_vars /\ WF_vars(LoopStep)

(***************************************************************************)
(* Claims about parsePRIdentifier.                                         *)
(***************************************************************************)
RECURSIVE Pow10(_)
Pow10(k) ==
    IF k = 0 THEN 1 ELSE 10 * Pow10(k - 1)

\* the decimal value of a digit string, most significant digit first
RECURSIVE DecimalValue(_)
DecimalValue(ds) ==
    IF ds = <<>> THEN 0
    ELSE (IF Head(ds) = "1" THEN Pow10(Len(ds) - 1) ELSE 0) + DecimalValue(Tail(ds))

\* C1: for an owner O and a repository R that are non-empty and hold no '/'
\* and no '#', and a digit string N, parsePRIdentifier returns (O, R, N as a
\* base-10 integer) for 'https://github.com/O/R/pull/N', for 'O/R#N' and for
\* 'O/R/pull/N' alike.
C1_EquivalentFormsAgree ==
    (/\ parseOut # Pending
     /\ given.shape \in {"url", "short", "path"}
     /\ CleanName(given.o)
     /\ CleanName(given.r))
    => parseOut = [ok |-> TRUE, owner |-> given.o, repo |-> given.r,
                   number |-> DecimalValue(given.n)]

C1_Witness ==
    /\ parseOut # Pending
    /\ given.shape = "url"
    /\ given.o = <<"github.com">>
    /\ given.r = <<"a", "1">>
    /\ given.n = <<"1", "0">>
    /\ parseOut.ok
    /\ parseOut.number = 10

\* C3: every reference parsePRIdentifier returns has number > 0 and an owner
\* and a repository that are non-empty and hold neither '/' nor '#'.
C3_ReferenceWellFormed ==
    (parseOut # Pending /\ parseOut.ok)
    => /\ parseOut.number > 0
       /\ CleanName(parseOut.owner)
       /\ CleanName(parseOut.repo)

\* the reference a match stands for
TripleOf(m) ==
    [ok |-> TRUE, owner |-> m.owner, repo |-> m.repo, number |-> m.number]

\* C17: parsePRIdentifier returns the reference of the first pattern that
\* matches, in the order URL, owner/repo#N, owner/repo/pull/N; an identifier
\* that both the URL and the owner/repo#N pattern match is read as the URL.
C17_FirstMatchWins ==
    parseOut # Pending
    => /\ UrlMatch(given.text).matched
              => parseOut = TripleOf(UrlMatch(given.text))
       /\ (~UrlMatch(given.text).matched /\ ShortMatch(given.text).matched)
              => parseOut = TripleOf(ShortMatch(given.text))
       /\ (/\ ~UrlMatch(given.text).matched
           /\ ~ShortMatch(given.text).matched
           /\ PathMatch(given.text).matched)
              => parseOut = TripleOf(PathMatch(given.text))
       /\ (/\ given.shape \in {"url#", "host#"}
           /\ CleanName(given.o)
           /\ CleanName(given.r))
              => parseOut = [ok |-> TRUE, owner |-> given.o, repo |-> given.r,
                             number |-> DecimalValue(given.n)]

\* an identifier both patterns match, with different readings, read as the URL
C17_Witness ==
    /\ parseOut # Pending
    /\ given.shape = "url#"
    /\ UrlMatch(given.text).matched
    /\ ShortMatch(given.text).matched
    /\ ShortMatch(given.text).owner = <<"https:">>
    /\ ShortMatch(given.text).number = 11
    /\ parseOut.owner = given.o
    /\ parseOut.number = 1

(***************************************************************************)
(* Claims about fetchPR.                                                   *)
(***************************************************************************)
MatchesNoShape(s) ==
    /\ ~UrlMatch(s).matched
    /\ ~ShortMatch(s).matched
    /\ ~PathMatch(s).matched

HasLine(message, text) ==
    \E i \in 2..Len(message) : message[i] = <<text>>

\* C2: for an identifier that matches none of the three shapes, fetchPR fails
\* with an error whose message lists the three supported forms, and no request
\* has been issued to the hosting API.
C2_InvalidIdentifierFailsEarly ==
    (fpc \notin {"idle", "called"} /\ MatchesNoShape(fetchId))
    => /\ fpc = "done"
       /\ fetchOut # Pending
       /\ fetchOut.threw
       /\ HasLine(fetchOut.message, "  - https://github.com/owner/repo/pull/123")
       /\ HasLine(fetchOut.message, "  - owner/repo#123")
       /\ HasLine(fetchOut.message, "  - owner/repo/pull/123")
       /\ requests = <<>>

C2_Witness ==
    /\ fpc = "done"
    /\ fetchId = <<"a", "/", "a">>
    /\ fetchOut # Pending
    /\ fetchOut.threw

\* the diff the claim describes: one header and the raw patch per file with a
\* non-empty patch, in the order of the files, one blank line between blocks
RECURSIVE ExpectedDiff(_, _)
ExpectedDiff(files, first) ==
    IF files = <<>> THEN <<>>
    ELSE LET f == Head(files)
         IN  IF f.hasPatch /\ Len(f.patch) > 0
             THEN (IF first THEN <<>> ELSE <<"\n\n">>)
                      \o <<"diff --git a/", f.filename, " b/", f.filename, "\n">>
                      \o f.patch
                      \o ExpectedDiff(Tail(files), FALSE)
             ELSE ExpectedDiff(Tail(files), first)

Occurrences(text, sym) ==
    Cardinality({i \in 1..Len(text) : text[i] = sym})

\* C4: the diff fetchPR builds holds, for the files in API order, exactly one
\* 'diff --git' header followed by the raw patch for each file with a
\* non-empty patch, blocks one blank line apart, and nothing for a file
\* without a patch; every file is still in files, in API order.
C4_DiffFromPatches ==
    (fetchOut # Pending /\ ~fetchOut.threw)
    => LET v == fetchOut.value
           served == remote.files
       IN  /\ v.diff = ExpectedDiff(served, TRUE)
           /\ Occurrences(v.diff, "diff --git a/")
                = Cardinality({i \in 1..Len(served) :
                                 served[i].hasPatch /\ served[i].patch # <<>>})
           /\ Len(v.files) = Len(served)
           /\ \A i \in 1..Len(served) :
                /\ v.files[i].filename = served[i].filename
                /\ v.files[i].hasPatch = served[i].hasPatch
                /\ v.files[i].patch = served[i].patch

C4_Witness ==
    /\ fetchOut # Pending
    /\ ~fetchOut.threw
    /\ Len(remote.files) = 2
    /\ remote.files[1].filename = "a.ts"
    /\ remote.files[1].patch = SamplePatch
    /\ remote.files[2].filename = "b.ts"
    /\ ~remote.files[2].hasPatch
    /\ fetchOut.value.diff
         = <<"diff --git a/", "a.ts", " b/", "a.ts", "\n">> \o SamplePatch
    /\ Len(fetchOut.value.files) = 2

\* the first words of the message the claim expects for a failure
ExpectedHead(err) ==
    IF err.hasStatus /\ err.status = 404 THEN "PR not found: "
    ELSE IF err.hasStatus /\ err.status = 401
    THEN "GitHub authentication failed. Check your GITHUB_TOKEN."
    ELSE IF err.hasStatus /\ err.status = 403
    THEN "GitHub API rate limit exceeded or insufficient permissions."
    ELSE "Failed to fetch PR: "

\* C5: when a retrieval fails, fetchPR returns no PullRequest and throws one
\* error chosen by the status: not found for 404, authentication for 401,
\* rate limit or permission for 403, and otherwise (no status included) the
\* generic error, which carries the original message.
C5_FailureMapping ==
    (fetchErr # NoError)
    => /\ fpc = "done"
       /\ fetchOut # Pending
       /\ fetchOut.threw
       /\ fetchOut.message[1][1] = ExpectedHead(fetchErr)
       /\ (ExpectedHead(fetchErr) = "Failed to fetch PR: " /\ fetchErr.hasMessage)
           => fetchOut.message[1] = <<"Failed to fetch PR: ", fetchErr.message>>

C5_Witness ==
    /\ fetchErr # NoError
    /\ fetchErr.hasStatus
    /\ fetchErr.status = 403
    /\ Len(requests) = 2
    /\ fetchOut # Pending
    /\ fetchOut.threw

C7_DistinctTempFiles ==
    /\ \A r1, r2 \in Runs :
        (r1 # r2 /\ tempFile[r1] # NoFile /\ tempFile[r2] # NoFile)
        => tempFile[r1] # tempFile[r2]
    /\ \A r \in Runs :
        (ppc[r] = "exec" /\ wrote[r] = "ok")
        => /\ tempFile[r] \in DOMAIN fs
           /\ fs[tempFile[r]] = postArgs[r].review


(***************************************************************************)
(* Claims about the run.                                                   *)
(***************************************************************************)
\* the text increment a message carries: the text of an assistant or user
\* message, as the loop reads it
TextIncrement(message) ==
    StreamedText(message)

HasMarker(text) ==
    \E i \in 1..Len(text) : text[i] = SummaryMarker

\* text, or text ended by a newline: what a write of text puts on the terminal
AsWritten(text) ==
    IF text # <<>> /\ text[Len(text)] = "\n" THEN text ELSE text \o <<"\n">>

\* the increments without the marker among messages, in arrival order
RECURSIVE MarkerFree(_)
MarkerFree(messages) ==
    IF messages = <<>> THEN <<>>
    ELSE LET t == TextIncrement(Head(messages))
         IN  (IF t.found /\ ~HasMarker(t.text) THEN <<AsWritten(t.text)>> ELSE <<>>)
                 \o MarkerFree(Tail(messages))

\* C8: while the stream is consumed, no text holding the heading
\* "## PR Summary" is on the live output, and the live output is exactly the
\* increments without the heading that have arrived so far, in arrival order
\* (each is written in the step in which it arrives).
C8_MarkerTextNeverLive ==
    /\ \A i \in 1..Len(out) : ~HasMarker(out[i])
    /\ out = MarkerFree(arrived)

\* an increment with the heading arrived and was held back, and the increment
\* that came after it was written
C8_Witness ==
    /\ Len(arrived) = 2
    /\ TextIncrement(arrived[1]).found
    /\ HasMarker(TextIncrement(arrived[1]).text)
    /\ TextIncrement(arrived[2]).found
    /\ ~HasMarker(TextIncrement(arrived[2]).text)
    /\ out = <<AsWritten(TextIncrement(arrived[2]).text)>>

\* part occurs in text
ContainsText(text, part) ==
    \E i \in 0..(Len(text) - Len(part)) :
        SubSeq(text, i + 1, i + Len(part)) = part

\* the stream has ended without raising
StreamConsumed ==
    /\ queries = 1
    /\ pc \notin {"startup", "fetching", "streaming"}
    /\ (exit = Exited(1) => rl = "closed")

\* C9: in a run whose stream has ended and delivered a review in a result
\* event, that review is displayed once by phase 3 and no live write holds it.
C9_ReviewShownOnce ==
    (StreamConsumed /\ fullReview # <<>>)
        => /\ displayed = <<CleanReview(fullReview)>>
           /\ \A i \in 1..Len(out) :
                  ~ContainsText(out[i], CleanReview(fullReview))

\* the run did not go into the prompts
LoopSkipped ==
    isNonInteractive \/ recommendedReviewers = <<>>

\* C10: the prompts are opened only in a run without --non-interactive whose
\* extracted reviewer list is non-empty; in any other run no question is
\* asked, no gh command is run, postReviewComment is not called, and once the
\* review is displayed the run has ended with code 0.
C10_LoopOnlyWhenInteractiveWithReviewers ==
    /\ (rl # "none" \/ prompts # <<>>)
           => (~isNonInteractive /\ recommendedReviewers # <<>>)
    /\ LoopSkipped
           => /\ prompts = <<>>
              /\ answers = <<>>
              /\ commands = <<>>
              /\ ppc[Self] = "idle"
              /\ fs = EmptyDir
              /\ (displayed # <<>> => (pc = "exited" /\ exit = Exited(0)))

\* a run with --non-interactive whose review recommends reviewers has shown
\* the review and ended without a question
C10_Witness ==
    /\ isNonInteractive
    /\ recommendedReviewers # <<>>
    /\ displayed # <<>>
    /\ exit = Exited(0)
    /\ prompts = <<>>
    /\ rl = "none"


(***************************************************************************)
(* Claims about the prompts.                                               *)
(***************************************************************************)
\* "y" or "yes" in any mix of upper and lower case
Acceptances ==
    {<<y>> : y \in {"y", "Y"}}
        \cup {<<y, e, s>> : y \in {"y", "Y"}, e \in {"e", "E"}, s \in {"s", "S"}}

\* how many commands named cmd have been run
RECURSIVE CountCommands(_, _)
CountCommands(cmds, cmd) ==
    IF cmds = <<>> THEN 0
    ELSE (IF Head(cmds).cmd = cmd THEN 1 ELSE 0) + CountCommands(Tail(cmds), cmd)

\* 1 for TRUE, 0 for FALSE
Times(b) ==
    IF b THEN 1 ELSE 0

\* postReviewComment has been called in this run
PostCalled ==
    ppc[Self] # "idle"

\* C11: assignReviewers runs once when the first answer is "y" or "yes" in any
\* case and never otherwise; postReviewComment is called once when the second
\* answer is "y" or "yes" in any case and never otherwise.
C11_AnswersDecideActions ==
    /\ Len(answers) = 0 => CountCommands(commands, "gh pr edit") = 0
    /\ (Len(answers) >= 1 /\ pc # "assigning")
           => CountCommands(commands, "gh pr edit")
                  = Times(answers[1] \in Acceptances)
    /\ pc = "assigning" => answers[1] \in Acceptances
    /\ Len(answers) < 2 => ~PostCalled
    /\ Len(answers) = 2
           => /\ PostCalled <=> answers[2] \in Acceptances
              /\ CountCommands(commands, "gh pr comment")
                     <= Times(answers[2] \in Acceptances)
    /\ (Len(answers) = 2 /\ ran[Self] # "no")
           => CountCommands(commands, "gh pr comment") = 1

\* "n" then "y": nobody assigned, one comment posted
C11_Witness ==
    /\ answers = <<<<"n">>, <<"y">>>>
    /\ pc = "exited"
    /\ CountCommands(commands, "gh pr edit") = 0
    /\ CountCommands(commands, "gh pr comment") = 1
    /\ ppc[Self] = "returned"

\* an upper-case answer is taken as acceptance
C11_WitnessUpperCase ==
    /\ Len(answers) = 2
    /\ answers[1] = <<"Y", "E", "S">>
    /\ CountCommands(commands, "gh pr edit") = 1

\* gh pr edit has failed in this run
AssignFailed ==
    \E i \in 1..Len(commands) :
        commands[i].cmd = "gh pr edit" /\ ~commands[i].ok

\* postReviewComment has failed in this run: the write or the command
PostFailed ==
    wrote[Self] \in {"failed", "partial"} \/ ran[Self] = "failed"

\* C12: a failed assignReviewers or postReviewComment does not end the run:
\* after a failed gh pr edit the comment question is asked, and when both
\* questions were answered the run ends with code 0 whatever failed.
C12_ActionFailuresAreCaught ==
    /\ AssignFailed => (Len(prompts) = 2 /\ prompts[2] = CommentPrompt)
    /\ (AssignFailed \/ PostFailed)
           => /\ exit.done => (exit.code = 0 \/ Len(answers) < 2)
              /\ (exit.done /\ Len(answers) = 2) => (rl = "closed" /\ pc = "exited")
    /\ (PostFailed /\ ppc[Self] = "returned" /\ pc = "posting") => ~exit.done

\* both actions failed and the run ended with code 0
C12_Witness ==
    /\ AssignFailed
    /\ ran[Self] = "failed"
    /\ Len(prompts) = 2
    /\ exit = Exited(0)


\* C13: once the readline interface is open, handleInteractivePrompts comes to
\* its end, and whenever the run has ended, by whichever path, the interface
\* it opened is closed.
C13_LoopEndsAndCloses ==
    /\ [](exit.done => rl # "open")
    /\ [](rl = "open" => <>(rl = "closed" /\ pc = "exited"))

\* the loop was left through a failing question, and the interface is closed
C13_Witness ==
    /\ rl = "closed"
    /\ pc = "exited"
    /\ exit = Exited(1)
    /\ Len(prompts) >= 1


\* the reference is missing from the command line
ReferenceMissing ==
    ~prIdentifier.found \/ prIdentifier.text = <<>>

\* C15: the process exits with 0 when help is requested or the run succeeds
\* and with a non-zero code when the reference is missing or a fatal error
\* occurred; with a help flag nothing is fetched, reference or not.
C15_ExitCodes ==
    /\ helpRequested => (fpc = "idle" /\ requests = <<>> /\ queries = 0)
    /\ exit.done
           => /\ helpRequested => exit.code = 0
              /\ (~helpRequested /\ ReferenceMissing) => exit.code # 0
              /\ fatal # <<>> => exit.code # 0
              /\ (fatal = <<>> /\ ~helpShown) => exit.code = 0

\* --help next to a reference: exit 0, nothing fetched
C15_Witness ==
    /\ helpRequested
    /\ prIdentifier.found
    /\ parsePRIdentifier(prIdentifier.text).ok
    /\ exit = Exited(0)
    /\ helpShown
    /\ requests = <<>>

\* the agent stream raised in this run
StreamRaised ==
    fatal = <<<<"agent stream failed">>>>

\* C16: when the agent stream raises, the run ends with a non-zero code, the
\* agent has been queried once only, no question is asked and no gh command
\* is run.
C16_StreamErrorIsFatal ==
    StreamRaised
        => /\ exit.done
           /\ exit.code # 0
           /\ pc = "exited"
           /\ queries = 1
           /\ prompts = <<>>
           /\ rl = "none"
           /\ commands = <<>>
           /\ ~PostCalled

\* the stream raised after a result with reviewers had arrived
C16_Witness ==
    /\ StreamRaised
    /\ exit = Exited(1)
    /\ ~isNonInteractive
    /\ extractReviewers(fullReview) # <<>>
    /\ prompts = <<>>

\* the payload of the last message of type result that carries one
RECURSIVE LastResult(_)
LastResult(messages) ==
    IF messages = <<>> THEN <<>>
    ELSE LET m == messages[Len(messages)]
         IN  IF m.type = "result" /\ m.hasResult THEN m.result
             ELSE LastResult(SubSeq(messages, 1, Len(messages) - 1))

\* C19: the full review is, verbatim, the payload of the last result event
\* received; an earlier result is overwritten and the texts of assistant and
\* user messages never enter it.
C19_LastResultWins ==
    fullReview = LastResult(arrived)

\* two results arrived, the second is kept
C19_Witness ==
    /\ Len(arrived) = 2
    /\ arrived[1].type = "result"
    /\ arrived[2].type = "result"
    /\ arrived[1].result = ReviewWithMarker
    /\ arrived[2].result = ReviewSkillFormat
    /\ fullReview = ReviewSkillFormat
    /\ pc # "streaming"

\* how many requests to the api have been made
RECURSIVE CountRequests(_, _)
CountRequests(reqs, api) ==
    IF reqs = <<>> THEN 0
    ELSE (IF Head(reqs).api = api THEN 1 ELSE 0) + CountRequests(Tail(reqs), api)

\* C20: in a run each external operation is issued at most once, failures or
\* not: pulls.get, pulls.listFiles (one page of 100), the agent query,
\* gh pr edit and gh pr comment.
C20_EachOperationAtMostOnce ==
    /\ CountRequests(requests, "pulls.get") <= 1
    /\ CountRequests(requests, "pulls.listFiles") <= 1
    /\ \A i \in 1..Len(requests) :
           requests[i].api = "pulls.listFiles"
               => (requests[i].per_page = 100
                   /\ DOMAIN requests[i]
                          = {"api", "owner", "repo", "pull_number", "per_page"})
    /\ queries <= 1
    /\ CountCommands(commands, "gh pr edit") <= 1
    /\ CountCommands(commands, "gh pr comment") <= 1

\* a failed pulls.get ended the run after the one request
C20_Witness ==
    /\ exit = Exited(1)
    /\ fetchErr # NoError
    /\ CountRequests(requests, "pulls.get") = 1
    /\ CountRequests(requests, "pulls.listFiles") = 0
    /\ queries = 0

\* both gh commands failed, each after one attempt
C20_WitnessCommands ==
    /\ exit.done
    /\ AssignFailed
    /\ ran[Self] = "failed"
    /\ CountCommands(commands, "gh pr edit") = 1
    /\ CountCommands(commands, "gh pr comment") = 1
    /\ queries = 1

\* both requests of fetchPR have been made, in order, and have succeeded
FetchCompleted ==
    /\ fpc = "done"
    /\ ~fetchOut.threw
    /\ Len(requests) = 2
    /\ requests[1].api = "pulls.get"
    /\ requests[2].api = "pulls.listFiles"

\* C21: the stages come in the order resolve, fetch, query, extraction,
\* prompts, mutation: a request is made only for a reference that parsed, the
\* agent is queried only after pulls.get and pulls.listFiles have both
\* succeeded, a question or a gh command comes only after the stream has ended
\* and the review is displayed, and the comment question only after an
\* accepted assignment has finished.
C21_StagesInOrder ==
    /\ requests # <<>> => target.ok
    /\ queries >= 1 => FetchCompleted
    /\ arrived # <<>> => queries = 1
    /\ (prompts # <<>> \/ commands # <<>> \/ PostCalled \/ rl # "none")
           => /\ pc \notin {"startup", "fetching", "streaming"}
              /\ queries = 1
              /\ displayed = <<CleanReview(fullReview)>>
              /\ recommendedReviewers = extractReviewers(fullReview)
    /\ commands # <<>> => prompts # <<>>
    /\ PostCalled => Len(prompts) = 2
    /\ (Len(prompts) = 2 /\ answers[1] \in Acceptances)
           => /\ pc # "assigning"
              /\ CountCommands(commands, "gh pr edit") = 1
    /\ \A i \in 1..Len(commands) :
           commands[i].cmd = "gh pr comment"
               => \A j \in 1..Len(commands) :
                      commands[j].cmd = "gh pr edit" => j < i

\* a run that went through every stage
C21_Witness ==
    /\ exit = Exited(0)
    /\ FetchCompleted
    /\ queries = 1
    /\ displayed # <<>>
    /\ Len(commands) = 2
    /\ commands[1].cmd = "gh pr edit"
    /\ commands[2].cmd = "gh pr comment"

\* the gh commands a run issues for PR number, handles and review text, given
\* how each command ended and which file the comment was read from
ExpectedCommand(c, number, handles, text) ==
    IF c.cmd = "gh pr edit"
    THEN [cmd |-> "gh pr edit", number |-> number, reviewers |-> handles,
          ok |-> c.ok]
    ELSE [cmd |-> "gh pr comment", number |-> number,
          bodyFile |-> [number |-> number, stamp |-> c.bodyFile.stamp],
          found |-> TRUE, body |-> text, ok |-> c.ok]

\* C22: the gh pr edit and gh pr comment commands are determined by the PR
\* number, the handles and the review text: nothing of the owner or the
\* repository of the resolved reference is in them.
C22_MutationsIgnoreRepository ==
    \A i \in 1..Len(commands) :
        commands[i] = ExpectedCommand(commands[i], prData.number,
                                      extractReviewers(fullReview),
                                      CleanReview(fullReview))

\* the commands of a run on 1/a, pull request 1
C22_Witness ==
    /\ target.ok
    /\ target.owner = <<"1">>
    /\ target.number = 1
    /\ fullReview = ReviewWithMarker
    /\ commands = <<EditCommand(1, <<<<"a">>>>, TRUE),
                    CommentCommand(1, TempFileName(1, 0),
                                   WriteFile(EmptyDir, TempFileName(1, 0),
                                             CleanReview(ReviewWithMarker)),
                                   TRUE)>>

\* the same commands in a run on a/a, pull request 1
C22_WitnessOtherOwner ==
    /\ target.ok
    /\ target.owner = <<"a">>
    /\ target.number = 1
    /\ fullReview = ReviewWithMarker
    /\ commands = <<EditCommand(1, <<<<"a">>>>, TRUE),
                    CommentCommand(1, TempFileName(1, 0),
                                   WriteFile(EmptyDir, TempFileName(1, 0),
                                             CleanReview(ReviewWithMarker)),
                                   TRUE)>>

\* the stream has ended, without raising, and brought no review
EndedWithoutReview ==
    /\ queries = 1
    /\ pc = "exited"
    /\ ~StreamRaised
    /\ LastResult(arrived) = <<>>

\* C23: when the stream ends without a result event, or with a last result
\* whose payload is empty, nothing is displayed, no reviewer is extracted, no
\* question is asked, no gh command is run, and the run ends with code 0.
C23_NoReviewNoActions ==
    EndedWithoutReview
        => /\ displayed = <<>>
           /\ recommendedReviewers = <<>>
           /\ prompts = <<>>
           /\ rl = "none"
           /\ commands = <<>>
           /\ ~PostCalled
           /\ exit = Exited(0)

\* a review arrived and was then overwritten by an empty result
C23_Witness ==
    /\ EndedWithoutReview
    /\ Len(arrived) = 2
    /\ arrived[1].type = "result"
    /\ arrived[1].result = ReviewWithMarker
    /\ arrived[2].type = "result"
    /\ arrived[2].hasResult
    /\ arrived[2].result = <<>>
    /\ exit = Exited(0)

\* the stream ended with no result event at all
C23_WitnessNoResult ==
    /\ EndedWithoutReview
    /\ \A i \in 1..Len(arrived) : arrived[i].type # "result"
    /\ out # <<>>
    /\ exit = Exited(0)

\* this step receives a message of type error
ErrorEventArrives ==
    /\ Len(arrived') = Len(arrived) + 1
    /\ arrived'[Len(arrived')].type = "error"

\* C24: a message of type error that arrives as an item of the stream changes
\* nothing but the list of messages received: nothing is written, the
\* captured review stays, the loop goes on and the run has not ended.
C24_ErrorEventIgnored ==
    [][ErrorEventArrives
           => /\ out' = out
              /\ fullReview' = fullReview
              /\ pc' = "streaming"
              /\ pc = "streaming"
              /\ exit' = Running
              /\ fatal' = <<>>
              /\ UNCHANGED <<displayed, recommendedReviewers, rl, prompts,
                             answers, queries, commands>>]_vars

\* an error message arrived, a result came after it, and the run ended with 0
C24_Witness ==
    /\ Len(arrived) = 2
    /\ arrived[1].type = "error"
    /\ arrived[2].type = "result"
    /\ fullReview = ReviewWithMarker
    /\ displayed # <<>>
    /\ exit = Exited(0)

(***************************************************************************)
(* Claims about extractReviewers.                                          *)
(***************************************************************************)
\* the handles the lines mention, line by line
RECURSIVE Mentioned(_)
Mentioned(lines) ==
    IF lines = <<>> THEN <<>>
    ELSE (IF Head(lines).handle = <<>> THEN <<>> ELSE <<Head(lines).handle>>)
             \o Mentioned(Tail(lines))

\* the section of the text holds no "##" before its next heading
PlainSection ==
    review.ending \in {"end", "heading", "second"}

\* C14: extractReviewers returns the handles mentioned in the first
\* Recommended Reviewers section, in order of appearance and with duplicates
\* kept, and returns the empty sequence when the heading is absent or the
\* section mentions nobody.
C14_HandlesInOrder ==
    (extractOut # Pending /\ PlainSection)
        => /\ ~extractOut.threw
           /\ extractOut.value
                  = (IF review.hasHeading THEN Mentioned(review.lines) ELSE <<>>)

\* a section that names the same handle on two lines
C14_Witness ==
    /\ extractOut # Pending
    /\ review.hasHeading
    /\ Len(review.lines) = 2
    /\ review.lines[1].handle = <<"a">>
    /\ review.lines[2].handle = <<"a">>
    /\ extractOut.value = <<<<"a">>, <<"a">>>>

\* the heading is absent, the text mentions somebody, nothing is returned
C14_WitnessNoHeading ==
    /\ extractOut # Pending
    /\ ~review.hasHeading
    /\ Mentioned(review.lines) # <<>>
    /\ extractOut.value = <<>>

\* the handles between the heading and the next "##"-level heading
SpanHandles ==
    Mentioned(review.lines)
        \o (IF review.ending \in {"deeper", "inline"} THEN <<<<"b">>>> ELSE <<>>)

\* C18: the span scanned runs from the heading to the next "##"-level heading
\* or the end of the text: the handles of the lines before that heading are
\* returned, also past a "###" heading or a line with "##" inside, and no
\* handle at or after it is.
C18_SpanToNextHeading ==
    (extractOut # Pending /\ review.hasHeading)
        => extractOut.value = SpanHandles


\* the positions of '@' in text
AtSigns(text) ==
    {i \in 1..Len(text) : text[i] = "@"}

\* letters, digits and underscore of the texts given
IsWordChar(c) ==
    c \in {"a", "b", "_", "7"}

\* the longest run of word characters of text that starts at position i
RECURSIVE WordRun(_, _)
WordRun(text, i) ==
    IF i > Len(text) \/ ~IsWordChar(text[i]) THEN <<>>
    ELSE <<text[i]>> \o WordRun(text, i + 1)

\* the word after the first '@' of text; <<>> without an '@'
AfterFirstAt(text) ==
    IF AtSigns(text) = {} THEN <<>>
    ELSE WordRun(text, 1 + CHOOSE i \in AtSigns(text) :
                               \A j \in AtSigns(text) : i <= j)

\* the word after the first '@' of text that a word character follows
FirstMention(text) ==
    LET ms == {i \in AtSigns(text) : WordRun(text, i + 1) # <<>>}
    IN  IF ms = {} THEN <<>>
        ELSE WordRun(text, 1 + CHOOSE i \in ms : \A j \in ms : i <= j)

\* one word per line, the empty ones left out
RECURSIVE PerLine(_, _)
PerLine(lines, reading) ==
    IF lines = <<>> THEN <<>>
    ELSE LET w == IF reading = "first at" THEN AfterFirstAt(Head(lines).text)
                  ELSE FirstMention(Head(lines).text)
         IN  (IF w = <<>> THEN <<>> ELSE <<w>>) \o PerLine(Tail(lines), reading)

\* C25 as stated: each line of the section gives at most one handle, the
\* longest run of word characters after the first '@' on the line.
C25_HandleAfterFirstAt ==
    (extractOut # Pending /\ review.hasHeading /\ PlainSection)
        => extractOut.value = PerLine(review.lines, "first at")

\* C25, amended: each line of the section gives at most one handle, the
\* longest run of word characters after the first '@' on the line that a
\* word character follows; a second mention on the line is not collected and
\* a handle is cut at a hyphen.
C25_OneHandlePerLine ==
    (extractOut # Pending /\ review.hasHeading /\ PlainSection)
        => /\ Len(extractOut.value) <= Len(review.lines)
           /\ extractOut.value = PerLine(review.lines, "first mention")

\* a line with two mentions and a line with a hyphen in the handle
C25_Witness ==
    /\ extractOut # Pending
    /\ review.hasHeading
    /\ PlainSection
    /\ Len(review.lines) = 2
    /\ review.lines[1].more
    /\ review.lines[2].text = <<"x", "@", "b", "-", "a">>
    /\ extractOut.value = <<<<"a">>, <<"b">>>>

====
